---- MODULE Spec2Model ----
(***************************************************************************)
(* Admission control and streaming transcode of google-video-parser.       *)
(*                                                                         *)
(*  - lib/config.js (src/unnamed/part_003): the numeric policy, parsed     *)
(*    from the process environment with parseInt.                          *)
(*  - lib/jobQueue.js: the slot counter activeJobs with                    *)
(*    tryAcquireJobSlot / releaseJobSlot / acquireJobSlotWithMemoryGuard.  *)
(*  - src/unnamed/part_000: the monolithic index.js variant whose          *)
(*    processVideo handler owns its own activeJobs counter and releases    *)
(*    the slot in a finally block.                                         *)
(*  - lib/mediaPipeline.js (src/unnamed/part_001, lines 1-137): the        *)
(*    streaming convertStreamAndUpload, which pumps the source into        *)
(*    ffmpeg and ffmpeg's output through a PassThrough into the GCS write  *)
(*    stream.                                                              *)
(*                                                                         *)
(* Node runs one JavaScript turn at a time: the code between two awaits    *)
(* is one atomic action here.                                              *)
(***************************************************************************)
EXTENDS Integers, Sequences, FiniteSets, TLC

\* ------------------------------------------------------------------------
\* Bounds of the model
\* ------------------------------------------------------------------------
NumCallers == 2      \* concurrent callers of the jobQueue.js API
NumRequests == 3     \* concurrent HTTP requests to processVideo (part_000)
MaxTime == 4         \* last value of the wall clock Date.now()
MaxChunks == 3       \* chunks of the longest source stream
NumJobs == 2         \* concurrent temp-file convertStreamAndUpload calls

Callers == 1..NumCallers
Requests == 1..NumRequests

\* ------------------------------------------------------------------------
\* lib/config.js: numbers parsed from the environment
\* ------------------------------------------------------------------------
DigitChars == {"0", "1", "2", "3", "4", "5", "6", "7", "8", "9"}

DigitVal(ch) ==
  CASE ch = "0" -> 0 [] ch = "1" -> 1 [] ch = "2" -> 2 [] ch = "3" -> 3
    [] ch = "4" -> 4 [] ch = "5" -> 5 [] ch = "6" -> 6 [] ch = "7" -> 7
    [] ch = "8" -> 8 [] ch = "9" -> 9

\* A JavaScript number: an integer, NaN or Infinity.
NaN == [nan |-> TRUE, inf |-> FALSE, n |-> 0]
Infinity == [nan |-> FALSE, inf |-> TRUE, n |-> 0]
Num(k) == [nan |-> FALSE, inf |-> FALSE, n |-> k]

RECURSIVE SkipSpaces(_)
SkipSpaces(s) ==
  IF s # <<>> /\ Head(s) = " " THEN SkipSpaces(Tail(s)) ELSE s

\* The value of the longest prefix of decimal digits of s, after acc.
RECURSIVE DigitsValue(_, _)
DigitsValue(s, acc) ==
  IF s # <<>> /\ Head(s) \in DigitChars
  THEN DigitsValue(Tail(s), 10 * acc + DigitVal(Head(s)))
  ELSE acc

\* parseInt(s, 10): leading blanks, an optional sign, then the longest run
\* of digits; NaN when there is no digit.
parseInt(s) ==
  LET t == SkipSpaces(s)
      neg == t # <<>> /\ Head(t) = "-"
      u == IF t # <<>> /\ Head(t) \in {"-", "+"} THEN Tail(t) ELSE t
  IN IF u = <<>> \/ Head(u) \notin DigitChars
     THEN NaN
     ELSE Num(IF neg THEN 0 - DigitsValue(u, 0) ELSE DigitsValue(u, 0))

\* process.env.X || dflt: an unset or empty variable takes the default.
OrDefault(s, dflt) == IF s = <<>> THEN dflt ELSE s

\* a < b, a >= b, a <= b and a > b of JavaScript for an integer a and a
\* number b: every comparison with NaN is false.
JsLt(a, b) == ~b.nan /\ (b.inf \/ a < b.n)
JsGe(a, b) == ~b.nan /\ ~b.inf /\ a >= b.n
JsLe(a, b) == ~b.nan /\ (b.inf \/ a <= b.n)
JsGt(a, b) == ~b.nan /\ ~b.inf /\ a > b.n

\* Number.isNaN(parsed) || parsed <= 0
Invalid(parsed) == parsed.nan \/ (~parsed.inf /\ parsed.n <= 0)

\* Values of process.env.MAX_CONCURRENT_JOBS: unset, positive, zero,
\* negative, non-numeric.
EnvValues ==
  { <<>>, <<"2">>, <<"0">>, <<"-", "1">>, <<"a", "b", "c">> }

\* The environment the modelled deployment sets for the memory ceiling,
\* the poll interval and the wait timeout: small valid values.
EnvMaxMemoryMb == <<"2">>
EnvJobSlotWaitIntervalMs == <<"1">>
EnvJobQueueTimeoutMs == <<"2">>

\* parseInt(process.env.MAX_MEMORY_MB || "450", 10), Infinity when invalid
MAX_MEMORY_MB ==
  LET parsed == parseInt(OrDefault(EnvMaxMemoryMb, <<"4", "5", "0">>))
  IN IF Invalid(parsed) THEN Infinity ELSE parsed

\* parseInt(process.env.JOB_SLOT_WAIT_INTERVAL_MS || "250", 10), 250 when
\* invalid
JOB_SLOT_WAIT_INTERVAL_MS ==
  LET parsed == parseInt(OrDefault(EnvJobSlotWaitIntervalMs, <<"2", "5", "0">>))
  IN IF Invalid(parsed) THEN 250 ELSE parsed.n

\* parseInt(process.env.JOB_QUEUE_TIMEOUT_MS || "600000", 10), 600000 when
\* invalid
JOB_QUEUE_TIMEOUT_MS ==
  LET parsed == parseInt(OrDefault(EnvJobQueueTimeoutMs,
                                   <<"6", "0", "0", "0", "0", "0">>))
  IN IF Invalid(parsed) THEN 600000 ELSE parsed.n

\* process.memoryUsage().rss in MB: at the ceiling or above it.
MemLevels == {MAX_MEMORY_MB.n, MAX_MEMORY_MB.n + 1}

VARIABLES
  env,          \* process.env.MAX_CONCURRENT_JOBS, a sequence of characters
  envBucket,    \* process.env.GCS_AUDIO_BUCKET is set
  \* lib/jobQueue.js
  activeJobs,   \* the slot counter of jobQueue.js
  now,          \* Date.now()
  rssMb,        \* getMemoryUsageMb()
  cpc,          \* position of each caller of the jobQueue API
  cstart,       \* start of each acquireJobSlotWithMemoryGuard call
  polledAt,     \* Date.now() read by the call's latest poll
  allHigh,      \* every poll of the call so far sampled rss above the limit
  cerr,         \* the error the call threw
  lastCall,     \* the latest jobQueue call: kind, caller, counter before it,
                \* and for a release right after the caller's own acquire
                \* the counter before that acquire
  \* part_000
  hActiveJobs,  \* the slot counter of part_000
  hpc,          \* position of each processVideo invocation
  jobAcquired,  \* the handler's local jobAcquired
  resp,         \* HTTP status sent, 0 before the response
  reused,       \* the response carries reused: true
  hReleases,    \* releaseJobSlot calls made by the invocation
  effects,      \* resources the invocation has touched
  \* lib/jobQueue.js, hasAvailableJobSlot
  probe,        \* the latest hasAvailableJobSlot call: its value and the
                \* parity of the number of calls
  \* part_001
  pipe,         \* one streaming convertStreamAndUpload invocation
  flow,         \* the bytes of a streaming invocation in which no leg fails
  \* lib/mediaPipeline.js
  tmp,          \* the temp-file convertStreamAndUpload invocations
  \* index.js
  legacy        \* the processVideo invocations of index.js

queueVars == <<activeJobs, now, rssMb, cpc, cstart, polledAt, allHigh, cerr,
               lastCall>>
handlerVars == <<hActiveJobs, hpc, jobAcquired, resp, reused, hReleases,
                 effects>>
laterVars == <<flow, tmp, legacy>>
vars == <<env, envBucket, queueVars, handlerVars, probe, pipe, laterVars>>

\* const MAX_CONCURRENT_JOBS = parseInt(process.env.MAX_CONCURRENT_JOBS || "1", 10)
MAX_CONCURRENT_JOBS == parseInt(OrDefault(env, <<"1">>))

\* ------------------------------------------------------------------------
\* src/unnamed/part_001 lines 1-137: the streaming convertStreamAndUpload.
\* Its state is one record: the source stream, the ffmpeg child with its
\* stdin and stdout, the PassThrough, the GCS write stream, the three
\* promises and the promise of the call. A stream that is destroyed again
\* does nothing; destroy(err) of a live stream emits 'error' on it, and an
\* 'error' without a listener is an uncaught exception of the process.
\* ------------------------------------------------------------------------
Null == -1                       \* exit code of a child ended by a signal
ExitCodes == {0, 1, Null}

NoErr == [kind |-> "none", code |-> 0, stderr |-> FALSE]
SourceError == [kind |-> "source", code |-> 0, stderr |-> FALSE]
WriteError == [kind |-> "write", code |-> 0, stderr |-> FALSE]
SpawnError == [kind |-> "spawn", code |-> 0, stderr |-> FALSE]
\* ERR_STREAM_PREMATURE_CLOSE of pipeline()
PrematureClose == [kind |-> "premature", code |-> 0, stderr |-> FALSE]

\* new Error(`ffmpeg exited with code ${code}`): the message carries the
\* code; what ffmpeg wrote on stderr went to console.error only.
ExitError(code, diag) == [kind |-> "exit", code |-> code, stderr |-> FALSE]

Pending == [st |-> "pending", err |-> NoErr]
Resolved == [st |-> "resolved", err |-> NoErr]
Rejected(err) == [st |-> "rejected", err |-> err]

\* The state when convertStreamAndUpload reaches its await.
NewPipeline ==
  [src |-> "open",          \* readableStream
   stdin |-> "open",        \* ffmpeg.stdin
   proc |-> "running",      \* the ffmpeg child: running, exited, or failed
                            \* when it could not be spawned
   code |-> 0,              \* its exit code once proc = "exited"
   diag |-> FALSE,          \* it has written on stderr
   closed |-> FALSE,        \* its 'close' event was emitted
   stdout |-> "open",       \* ffmpeg.stdout
   pt |-> "open",           \* throttledTranscodeStream
   ws |-> "open",           \* writeStream of uploadStreamToGcs
   resolved |-> FALSE,      \* the flag of uploadStreamToGcs
   exitP |-> Pending,       \* ffmpegExitPromise
   uploadP |-> Pending,     \* uploadPromise
   pumpP |-> Pending,       \* inputPumpPromise
   out |-> "pending",       \* the promise convertStreamAndUpload returned
   outErr |-> NoErr,        \* the error it rejected with
   first |-> NoErr,         \* the first rejection among the three promises
   lateFinish |-> FALSE,    \* 'finish' was emitted after the source's 'error'
   uncaught |-> {}]         \* streams whose 'error' found no listener

\* A promise settles once: the first rejection is remembered.
Reject(s, p, err) ==
  IF s[p].st # "pending" THEN s
  ELSE [s EXCEPT ![p] = Rejected(err),
                 !.first = IF @ = NoErr THEN err ELSE @]

Resolve(s, p) ==
  IF s[p].st # "pending" THEN s ELSE [s EXCEPT ![p] = Resolved]

\* pipeline(readableStream, ffmpeg.stdin) sees an error or a premature close
\* of one of its streams: it destroys both and rejects.
PipelineFail(s, err) ==
  Reject([s EXCEPT !.src = IF @ = "open" THEN "destroyed" ELSE @,
                   !.stdin = IF @ \in {"open", "ended"} THEN "destroyed"
                             ELSE @],
         "pumpP", err)

\* ffmpeg.stdin.destroy(err): the 'error' of a live stdin goes to pipeline().
DestroyStdinWith(s, err) ==
  IF s.stdin \in {"open", "ended"} THEN PipelineFail(s, err) ELSE s

\* ffmpeg.stdout.destroy(err): nothing listens for 'error' on ffmpeg.stdout.
DestroyStdoutWith(s, err) ==
  IF s.stdout = "open"
  THEN [s EXCEPT !.stdout = "destroyed", !.uncaught = @ \cup {"stdout"}]
  ELSE s

\* onReadError: if (!resolved) { resolved = true; cleanup();
\* writeStream.destroy(err); reject(err); }
onReadError(s, err) ==
  IF s.resolved THEN s
  ELSE Reject([s EXCEPT !.resolved = TRUE,
                        !.ws = IF @ \in {"open", "ending"} THEN "destroyed"
                               ELSE @],
              "uploadP", err)

\* 'error' on the PassThrough: onReadError while it is registered; after
\* cleanup() the only listener left is the one of stdout.pipe(), which
\* throws the error again.
EmitReadError(s, err) ==
  IF s.resolved THEN [s EXCEPT !.uncaught = @ \cup {"pt"}]
  ELSE onReadError(s, err)

\* destroy(err) of the PassThrough; after its 'end' it is destroyed already.
DestroyReadStreamWith(s, err) ==
  IF s.pt \in {"open", "ending"}
  THEN EmitReadError([s EXCEPT !.pt = "destroyed"], err)
  ELSE s

\* onWriteError: if (!resolved) { resolved = true; cleanup();
\* readStream.destroy(err); reject(err); }
onWriteError(s, err) ==
  IF s.resolved THEN s
  ELSE Reject(DestroyReadStreamWith([s EXCEPT !.resolved = TRUE], err),
              "uploadP", err)

\* onFinish: if (!resolved) { resolved = true; cleanup(); resolve(); }
onFinish(s) ==
  IF s.resolved THEN s
  ELSE Resolve([s EXCEPT !.resolved = TRUE], "uploadP")

CatchBlock_none(s, err) == s

\* catch (err): ffmpeg.stdin.destroy(err); ffmpeg.stdout.destroy(err);
\* throttledTranscodeStream.destroy(err); throw err
CatchBlock(s, err) ==
  DestroyReadStreamWith(DestroyStdoutWith(DestroyStdinWith(s, err), err), err)

\* finally: the same three destroy() calls without an error.
FinallyBlock(s) ==
  [s EXCEPT !.stdin = IF @ \in {"open", "ended"} THEN "destroyed" ELSE @,
            !.stdout = IF @ = "open" THEN "destroyed" ELSE @,
            !.pt = IF @ \in {"open", "ending"} THEN "destroyed" ELSE @]

AwaitAll_any(s) ==
  IF s.out # "pending" THEN s
  ELSE IF s.first # NoErr
       THEN FinallyBlock(CatchBlock([s EXCEPT !.out = "rejected",
                                              !.outErr = s.first], s.first))
  ELSE IF \E p \in {"exitP", "uploadP", "pumpP"} : s[p].st = "resolved"
       THEN FinallyBlock([s EXCEPT !.out = "resolved"])
  ELSE s

\* await Promise.all([ffmpegExitPromise, uploadPromise, inputPumpPromise])
\* inside try / catch / finally: the microtasks of the turn in which a
\* promise settled.
AwaitAll(s) ==
  IF s.out # "pending" THEN s
  ELSE IF s.first # NoErr
       THEN FinallyBlock(CatchBlock([s EXCEPT !.out = "rejected",
                                              !.outErr = s.first], s.first))
  ELSE IF \A p \in {"exitP", "uploadP", "pumpP"} : s[p].st = "resolved"
       THEN FinallyBlock([s EXCEPT !.out = "resolved"])
  ELSE s

\* ffmpeg.on("close", (code) => code === 0 ? resolve() : reject(...))
OnClose(s, code) ==
  IF code = 0 THEN Resolve(s, "exitP")
  ELSE Reject(s, "exitP", ExitError(code, s.diag))

\* readableStream.on("error", err => ffmpeg.stdin.destroy(err)), then the
\* listener of pipeline() on the same stream.
OnSourceError(s, err) == PipelineFail(DestroyStdinWith(s, err), err)

\* ------------------------------------------------------------------------
\* src/unnamed/part_001 lines 88-133: the bytes of a streaming invocation.
\* A chunk is one unit of data; a buffer is the sequence of the chunks it
\* holds, oldest first.
\* ------------------------------------------------------------------------
\* What the child writes on stdout for one chunk read on stdin.
Transcode(b) == b + 2

\* The contents the source can have: up to MaxChunks chunks of two kinds.
Sources == UNION {[1..n -> {1, 2}] : n \in 0..MaxChunks}

\* parseInt(process.env.GCS_UPLOAD_HIGH_WATER_MARK || "262144", 10), 262144
\* when invalid; the modelled deployment sets the variable to one chunk.
GCS_UPLOAD_HIGH_WATER_MARK ==
  LET parsed == parseInt(OrDefault(<<"1">>, <<"2", "6", "2", "1", "4", "4">>))
  IN IF Invalid(parsed) THEN 262144 ELSE parsed.n

\* parseInt(process.env.TRANSCODE_STREAM_HIGH_WATER_MARK || "262144", 10),
\* 262144 when invalid; the modelled deployment sets the variable to one
\* chunk.
TRANSCODE_STREAM_HIGH_WATER_MARK ==
  LET parsed == parseInt(OrDefault(<<"1">>, <<"2", "6", "2", "1", "4", "4">>))
  IN IF Invalid(parsed) THEN 262144 ELSE parsed.n

\* spawn("ffmpeg", ...) with stdio "pipe": ffmpeg.stdin and ffmpeg.stdout
\* are created with the default highWaterMark of the runtime.
DefaultHighWaterMark == 1

\* The chunks the child has read and not yet transcoded: its own working
\* set, which the parent does not configure.
TranscoderWindow == 1

\* writable.write(chunk): the chunk is queued behind the chunks already
\* buffered; nothing is refused.
write(buf, chunk) == Append(buf, chunk)

\* The return value of write(): false once the buffer has reached the
\* highWaterMark, which pauses the producer until 'drain'.
NeedDrain(buf, hwm) == Len(buf) >= hwm

Transform_drop(w, r, hwm) ==
  IF w = <<>> THEN [w |-> w, r |-> r]
  ELSE IF Len(r) >= hwm THEN [w |-> Tail(w), r |-> r]
  ELSE [w |-> Tail(w), r |-> Append(r, Head(w))]

\* PassThrough: a chunk written to the writable side is pushed unchanged
\* to the readable side, and stays on the writable side while the readable
\* side is at its highWaterMark.
Transform(w, r, hwm) ==
  IF w = <<>> \/ Len(r) >= hwm THEN [w |-> w, r |-> r]
  ELSE [w |-> Tail(w), r |-> Append(r, Head(w))]

\* lib/mediaPipeline.js, convertStreamAndUpload: the invocations that can
\* be in progress at once.
Jobs == 1..NumJobs

\* makeTempPath(prefix, ext): path.join(TMP_DIR,
\* `${prefix}-${Date.now()}-${Math.random()...}${ext}`), for the values
\* Date.now() and Math.random() return
makeTempPath(prefix, ext, dateNow, random) == <<prefix, dateNow, random, ext>>

\* fsp.unlink of each path: the files are gone; an absent path (ENOENT)
\* changes nothing.
unlinkAll(files, paths) == files \ paths

\* An invocation before the call: its position, its two paths, the state
\* of its three legs, the state ingest had when ffmpeg was spawned, the
\* state the transcoder had when the upload was started, the error thrown
\* in the try block, the unlink calls made, and the outcome of the call
\* with its rejection error.
IdleJob ==
  [pc |-> "idle", inputPath |-> <<>>, outputPath |-> <<>>,
   ingest |-> "idle", transcode |-> "idle", egress |-> "idle",
   atSpawn |-> "idle", atUpload |-> "idle", err |-> "none",
   unlinks |-> 0, out |-> "pending", outErr |-> "none"]

\* index.js, processVideo: the invocations that can be in progress at once.
LegacyRequests == 1..2

\* An invocation of processVideo before the request arrives: the size of
\* the source, the bytes of videoBuffer and audioBuffer, and the temporary
\* files it has written.
IdleRequest ==
  [pc |-> "idle", size |-> 0, videoBuffer |-> 0, audioBuffer |-> 0,
   inputFile |-> FALSE, outputFile |-> FALSE, resp |-> 0, reused |-> FALSE]

\* Before convertStreamAndUpload is called.
IdleFlow ==
  [started |-> FALSE, life |-> NewPipeline, source |-> <<>>, srcPos |-> 0,
   srcPaused |-> FALSE, stdinBuf |-> <<>>, ffIn |-> <<>>, ffOut |-> <<>>,
   stdoutBuf |-> <<>>, stdoutPaused |-> FALSE, ptW |-> <<>>, ptR |-> <<>>,
   ptPaused |-> FALSE, wsBuf |-> <<>>, written |-> <<>>, finalized |-> 0]

\* convertStreamAndUpload(readableStream, gcsFile, metadata) up to its
\* await: the child is spawned and the three legs are wired.
NewFlow(source) == [IdleFlow EXCEPT !.started = TRUE, !.source = source]

\* ------------------------------------------------------------------------
\* lib/jobQueue.js
\* ------------------------------------------------------------------------
tryAcquireJobSlot_lost(a, max) ==
  IF JsGe(a, max) THEN [ok |-> FALSE, activeJobs |-> a]
  ELSE [ok |-> TRUE, activeJobs |-> a]

tryAcquireJobSlot_by2(a, max) ==
  IF JsGe(a, max) THEN [ok |-> FALSE, activeJobs |-> a]
  ELSE [ok |-> TRUE, activeJobs |-> a + 2]

tryAcquireJobSlot(a, max) ==
  IF JsGe(a, max) THEN [ok |-> FALSE, activeJobs |-> a]
  ELSE [ok |-> TRUE, activeJobs |-> a + 1]

hasAvailableJobSlot_le(a, max) == JsLe(a, max)

\* return activeJobs < MAX_CONCURRENT_JOBS
hasAvailableJobSlot(a, max) == JsLt(a, max)

releaseJobSlot_nofloor(a) == a - 1

releaseJobSlot(a) == IF a > 0 THEN a - 1 ELSE a

MemoryAboveLimit_lax(rss) == JsGt(rss, Num(MAX_MEMORY_MB.n + 1))

\* rssMb > MAX_MEMORY_MB
MemoryAboveLimit(rss) == JsGt(rss, MAX_MEMORY_MB)

TimedOut_interval(t, start) == t - start > JOB_SLOT_WAIT_INTERVAL_MS

\* Date.now() - start > JOB_QUEUE_TIMEOUT_MS
TimedOut(t, start) == t - start > JOB_QUEUE_TIMEOUT_MS

NoError == [thrown |-> FALSE, values |-> {}]

TimeoutError_interval(elapsed) ==
  [thrown |-> TRUE, values |-> {JOB_SLOT_WAIT_INTERVAL_MS}]

\* new Error(`Timed out after ${JOB_QUEUE_TIMEOUT_MS}ms waiting ...`):
\* values are the numbers the message carries.
TimeoutError(elapsed) ==
  [thrown |-> TRUE, values |-> {JOB_QUEUE_TIMEOUT_MS}]

\* One iteration of the while loop of acquireJobSlotWithMemoryGuard, up to
\* the return, the throw or the await of delay().
PollBody(c, start) ==
  LET high == MemoryAboveLimit(rssMb)
      try == IF high THEN [ok |-> FALSE, activeJobs |-> activeJobs]
             ELSE tryAcquireJobSlot(activeJobs, MAX_CONCURRENT_JOBS)
      kind == IF try.ok THEN "acquire"
              ELSE IF TimedOut(now, start) THEN "timeout"
              ELSE "wait"
  IN /\ activeJobs' = try.activeJobs
     /\ allHigh' = [allHigh EXCEPT ![c] = @ /\ ~JsLe(rssMb, MAX_MEMORY_MB)]
     /\ polledAt' = [polledAt EXCEPT ![c] = now]
     /\ cpc' = [cpc EXCEPT ![c] =
                  CASE kind = "acquire" -> "holding"
                    [] kind = "timeout" -> "failed"
                    [] OTHER -> "waiting"]
     /\ cerr' = [cerr EXCEPT ![c] =
                  IF kind = "timeout" THEN TimeoutError(now - start) ELSE @]
     /\ lastCall' = [op |-> kind, by |-> c, before |-> activeJobs,
                      origin |-> -1]

\* A caller invokes acquireJobSlotWithMemoryGuard: start = Date.now() and
\* the first iteration runs in the same turn.
Call(c) ==
  /\ cpc[c] = "idle"
  /\ cstart' = [cstart EXCEPT ![c] = now]
  /\ PollBody(c, now)
  /\ UNCHANGED <<env, envBucket, now, rssMb, handlerVars, probe, pipe,
                 laterVars>>

\* The timer of delay(JOB_SLOT_WAIT_INTERVAL_MS) fires, no earlier than the
\* interval, and the loop runs its next iteration.
Poll(c) ==
  /\ cpc[c] = "waiting"
  /\ now >= polledAt[c] + JOB_SLOT_WAIT_INTERVAL_MS
  /\ PollBody(c, cstart[c])
  /\ UNCHANGED <<env, envBucket, now, rssMb, cstart, handlerVars, probe, pipe,
                 laterVars>>

\* For a release by c that directly follows c's own successful acquire, the
\* counter before that acquire; -1 for any other release.
ReleaseOrigin(c) ==
  IF lastCall.op = "acquire" /\ lastCall.by = c THEN lastCall.before ELSE -1

\* The holder of a slot calls releaseJobSlot.
Release(c) ==
  /\ cpc[c] = "holding"
  /\ activeJobs' = releaseJobSlot(activeJobs)
  /\ cpc' = [cpc EXCEPT ![c] = "released"]
  /\ cstart' = [cstart EXCEPT ![c] = 0]
  /\ polledAt' = [polledAt EXCEPT ![c] = 0]
  /\ lastCall' = [op |-> "release", by |-> c, before |-> activeJobs,
                   origin |-> ReleaseOrigin(c)]
  /\ UNCHANGED <<env, envBucket, now, rssMb, allHigh, cerr, handlerVars, probe,
                 pipe, laterVars>>

\* A caller that has released calls the exported releaseJobSlot once more.
ReleaseAgain(c) ==
  /\ cpc[c] = "released"
  /\ activeJobs' = releaseJobSlot(activeJobs)
  /\ cpc' = [cpc EXCEPT ![c] = "released2"]
  /\ lastCall' = [op |-> "release", by |-> c, before |-> activeJobs,
                   origin |-> ReleaseOrigin(c)]
  /\ UNCHANGED <<env, envBucket, now, rssMb, cstart, polledAt, allHigh, cerr,
                 handlerVars, probe, pipe, laterVars>>

\* A caller asks hasAvailableJobSlot(): one synchronous call, which returns
\* in the turn that made it.
HasAvailableJobSlot ==
  /\ probe' = [seq |-> 1 - probe.seq,
               value |-> hasAvailableJobSlot(activeJobs, MAX_CONCURRENT_JOBS)]
  /\ UNCHANGED <<env, envBucket, queueVars, handlerVars, pipe, laterVars>>

\* The wall clock advances.
Tick ==
  /\ now < MaxTime
  /\ now' = now + 1
  /\ UNCHANGED <<env, envBucket, activeJobs, rssMb, cpc, cstart, polledAt,
                 allHigh, cerr, lastCall, handlerVars, probe, pipe, laterVars>>

\* The resident set size of the process changes.
MemChange ==
  /\ \E m \in MemLevels \ {rssMb} : rssMb' = m
  /\ UNCHANGED <<env, envBucket, activeJobs, now, cpc, cstart, polledAt,
                 allHigh, cerr, lastCall, handlerVars, probe, pipe, laterVars>>

Init ==
  /\ env \in EnvValues
  /\ envBucket \in BOOLEAN
  /\ activeJobs = 0
  /\ now = 0
  /\ rssMb \in MemLevels
  /\ cpc = [c \in Callers |-> "idle"]
  /\ cstart = [c \in Callers |-> 0]
  /\ polledAt = [c \in Callers |-> 0]
  /\ allHigh = [c \in Callers |-> TRUE]
  /\ cerr = [c \in Callers |-> NoError]
  /\ lastCall = [op |-> "none", by |-> 0, before |-> 0, origin |-> -1]
  /\ hActiveJobs = 0
  /\ hpc = [h \in Requests |-> "start"]
  /\ jobAcquired = [h \in Requests |-> FALSE]
  /\ resp = [h \in Requests |-> 0]
  /\ reused = [h \in Requests |-> FALSE]
  /\ hReleases = [h \in Requests |-> 0]
  /\ effects = [h \in Requests |-> {}]
  /\ probe = [seq |-> 0, value |-> FALSE]
  /\ pipe = NewPipeline
  /\ flow = IdleFlow
  /\ tmp = [job |-> [j \in Jobs |-> IdleJob], fs |-> {}]
  /\ legacy = [r \in LegacyRequests |-> IdleRequest]

QueueNext ==
  \/ \E c \in Callers : Call(c)
  \/ \E c \in Callers : Poll(c)
  \/ \E c \in Callers : Release(c)
  \/ \E c \in Callers : ReleaseAgain(c)
  \/ Tick
  \/ MemChange

\* The callers of lib/jobQueue.js, which never reads GCS_AUDIO_BUCKET.
QueueInit == Init /\ envBucket

QueueSpec == QueueInit /\ [][QueueNext]_vars

\* Callers that ask for the capacity between acquisitions and releases made
\* in one instant of the clock.
CapacityNext ==
  \/ \E c \in Callers : Call(c)
  \/ \E c \in Callers : Release(c)
  \/ \E c \in Callers : ReleaseAgain(c)
  \/ HasAvailableJobSlot

CapacitySpec == QueueInit /\ [][CapacityNext]_vars

\* Five acquireJobSlotWithMemoryGuard calls issued in one instant against
\* MAX_CONCURRENT_JOBS = 2, with the memory at the ceiling and never above.
BurstCallers == 1..5

BurstInit ==
  /\ env = <<"2">>
  /\ envBucket = TRUE
  /\ activeJobs = 0
  /\ now = 0
  /\ rssMb = MAX_MEMORY_MB.n
  /\ cpc = [c \in BurstCallers |-> "idle"]
  /\ cstart = [c \in BurstCallers |-> 0]
  /\ polledAt = [c \in BurstCallers |-> 0]
  /\ allHigh = [c \in BurstCallers |-> TRUE]
  /\ cerr = [c \in BurstCallers |-> NoError]
  /\ lastCall = [op |-> "none", by |-> 0, before |-> 0, origin |-> -1]
  /\ hActiveJobs = 0
  /\ hpc = [h \in Requests |-> "start"]
  /\ jobAcquired = [h \in Requests |-> FALSE]
  /\ resp = [h \in Requests |-> 0]
  /\ reused = [h \in Requests |-> FALSE]
  /\ hReleases = [h \in Requests |-> 0]
  /\ effects = [h \in Requests |-> {}]
  /\ probe = [seq |-> 0, value |-> FALSE]
  /\ pipe = NewPipeline
  /\ flow = IdleFlow
  /\ tmp = [job |-> [j \in Jobs |-> IdleJob], fs |-> {}]
  /\ legacy = [r \in LegacyRequests |-> IdleRequest]

\* The five calls are issued in one turn: each runs its first attempt
\* before any holder can release and before the clock advances.
BurstRelease(c) ==
  /\ \A d \in BurstCallers : cpc[d] # "idle"
  /\ Release(c)

BurstTick ==
  /\ \A c \in BurstCallers : cpc[c] # "idle"
  /\ Tick

BurstNext ==
  \/ \E c \in BurstCallers : Call(c)
  \/ \E c \in BurstCallers : Poll(c)
  \/ \E c \in BurstCallers : BurstRelease(c)
  \/ BurstTick

BurstSpec == BurstInit /\ [][BurstNext]_vars

\* ------------------------------------------------------------------------
\* src/unnamed/part_000: processVideo with its own slot counter
\* ------------------------------------------------------------------------
handlerTryAcquireJobSlot(a, max) ==
  IF JsGe(a, max) THEN [ok |-> FALSE, activeJobs |-> a]
  ELSE [ok |-> TRUE, activeJobs |-> a + 1]

handlerReleaseJobSlot(a) == IF a > 0 THEN a - 1 ELSE a

Finally_unguarded(acquired, a) ==
  [activeJobs |-> handlerReleaseJobSlot(a), releases |-> 1]

\* finally { if (jobAcquired) { releaseJobSlot(); } }: the counter after
\* the block and the number of releaseJobSlot calls it made.
Finally(acquired, a) ==
  IF acquired
  THEN [activeJobs |-> handlerReleaseJobSlot(a), releases |-> 1]
  ELSE [activeJobs |-> a, releases |-> 0]

\* return res.status(status).json(...) inside the try or the catch block,
\* followed by the finally block, for a handler whose jobAcquired is acq and
\* that sees the counter a.
Respond(h, status, isReused, acq, a) ==
  LET fin == Finally(acq, a)
  IN /\ resp' = [resp EXCEPT ![h] = status]
     /\ reused' = [reused EXCEPT ![h] = isReused]
     /\ hActiveJobs' = fin.activeJobs
     /\ hReleases' = [hReleases EXCEPT ![h] = @ + fin.releases]
     /\ hpc' = [hpc EXCEPT ![h] = "done"]

\* An awaited call rejects: catch answers 500, finally runs.
Throw(h) ==
  /\ Respond(h, 500, FALSE, jobAcquired[h], hActiveJobs)
  /\ UNCHANGED <<jobAcquired>>

\* An awaited call resolves and the handler runs to its next await.
Advance(h, next) ==
  /\ hpc' = [hpc EXCEPT ![h] = next]
  /\ UNCHANGED <<hActiveJobs, jobAcquired, resp, reused, hReleases>>

Touch(h, e) == effects' = [effects EXCEPT ![h] = @ \cup {e}]

HStart_late(h) ==
  /\ hpc[h] = "start"
  /\ \E method \in {"GET", "POST"}, fileId \in BOOLEAN, userEmail \in BOOLEAN :
       IF method # "POST"
       THEN /\ Respond(h, 405, FALSE, FALSE, hActiveJobs)
            /\ UNCHANGED <<jobAcquired, effects>>
       ELSE IF ~fileId \/ ~userEmail
       THEN /\ Respond(h, 400, FALSE, FALSE, hActiveJobs)
            /\ UNCHANGED <<jobAcquired, effects>>
       ELSE LET try == handlerTryAcquireJobSlot(hActiveJobs,
                                                MAX_CONCURRENT_JOBS)
            IN /\ jobAcquired' = [jobAcquired EXCEPT ![h] = try.ok]
               /\ IF try.ok
                  THEN /\ hActiveJobs' = try.activeJobs
                       /\ hpc' = [hpc EXCEPT ![h] = "getDrive"]
                       /\ Touch(h, "driveClient")
                       /\ UNCHANGED <<resp, reused, hReleases>>
                  ELSE /\ Respond(h, 429, FALSE, FALSE, hActiveJobs)
                       /\ Touch(h, "driveClient")
  /\ UNCHANGED <<env, envBucket, queueVars, probe, pipe, laterVars>>

\* A request arrives: the method and body checks, tryAcquireJobSlot and the
\* call of getDriveClientForUser run in one turn.
HStart(h) ==
  /\ hpc[h] = "start"
  /\ \E method \in {"GET", "POST"}, fileId \in BOOLEAN, userEmail \in BOOLEAN :
       IF method # "POST"
       THEN /\ Respond(h, 405, FALSE, FALSE, hActiveJobs)
            /\ UNCHANGED <<jobAcquired, effects>>
       ELSE IF ~fileId \/ ~userEmail
       THEN /\ Respond(h, 400, FALSE, FALSE, hActiveJobs)
            /\ UNCHANGED <<jobAcquired, effects>>
       ELSE LET try == handlerTryAcquireJobSlot(hActiveJobs,
                                                MAX_CONCURRENT_JOBS)
            IN /\ jobAcquired' = [jobAcquired EXCEPT ![h] = try.ok]
               /\ IF try.ok
                  THEN /\ hActiveJobs' = try.activeJobs
                       /\ hpc' = [hpc EXCEPT ![h] = "getDrive"]
                       /\ Touch(h, "driveClient")
                       /\ UNCHANGED <<resp, reused, hReleases>>
                  ELSE /\ Respond(h, 429, FALSE, FALSE, hActiveJobs)
                       /\ UNCHANGED effects
  /\ UNCHANGED <<env, envBucket, queueVars, probe, pipe, laterVars>>

\* await getDriveClientForUser(userEmail), then drive.files.get is called.
HGetDrive(h) ==
  /\ hpc[h] = "getDrive"
  /\ \/ Advance(h, "getMeta") /\ Touch(h, "metadataFetch")
     \/ Throw(h) /\ UNCHANGED effects
  /\ UNCHANGED <<env, envBucket, queueVars, probe, pipe, laterVars>>

\* await drive.files.get(metadata); the object name is computed, the
\* bucket variable is checked and getStorageClient is called.
HGetMeta(h) ==
  /\ hpc[h] = "getMeta"
  /\ \/ envBucket /\ Advance(h, "getStorage")
     \/ Throw(h)
  /\ UNCHANGED <<env, envBucket, queueVars, probe, pipe, laterVars,
                 effects>>

\* await getStorageClient(), then gcsFile.exists() is called.
HGetStorage(h) ==
  /\ hpc[h] = "getStorage"
  /\ \/ Advance(h, "exists")
     \/ Throw(h)
  /\ UNCHANGED <<env, envBucket, queueVars, probe, pipe, laterVars,
                 effects>>

HExists_eager(h) ==
  /\ hpc[h] = "exists"
  /\ \/ \E alreadyExists \in BOOLEAN :
          IF alreadyExists
          THEN Advance(h, "reuseMeta") /\ Touch(h, "download")
          ELSE Advance(h, "download") /\ Touch(h, "download")
     \/ Throw(h) /\ UNCHANGED effects
  /\ UNCHANGED <<env, envBucket, queueVars, probe, pipe, laterVars>>

\* await gcsFile.exists(): an existing object leads to getMetadata, a
\* missing one to the download request.
HExists(h) ==
  /\ hpc[h] = "exists"
  /\ \/ \E alreadyExists \in BOOLEAN :
          IF alreadyExists
          THEN Advance(h, "reuseMeta") /\ UNCHANGED effects
          ELSE Advance(h, "download") /\ Touch(h, "download")
     \/ Throw(h) /\ UNCHANGED effects
  /\ UNCHANGED <<env, envBucket, queueVars, probe, pipe, laterVars>>

\* await gcsFile.getMetadata() of the existing object, 200 with reused.
HReuseMeta(h) ==
  /\ hpc[h] = "reuseMeta"
  /\ \/ Respond(h, 200, TRUE, jobAcquired[h], hActiveJobs)
        /\ UNCHANGED jobAcquired
     \/ Throw(h)
  /\ UNCHANGED <<env, envBucket, queueVars, probe, pipe, laterVars,
                 effects>>

\* await drive.files.get(alt: media), then streamToFile starts writing.
HDownload(h) ==
  /\ hpc[h] = "download"
  /\ \/ Advance(h, "streamToFile") /\ Touch(h, "inputFile")
     \/ Throw(h) /\ UNCHANGED effects
  /\ UNCHANGED <<env, envBucket, queueVars, probe, pipe, laterVars>>

\* await streamToFile(...), then convertToMp3 spawns ffmpeg.
HStreamToFile(h) ==
  /\ hpc[h] = "streamToFile"
  /\ \/ Advance(h, "convert") /\ Touch(h, "ffmpeg")
     \/ Throw(h) /\ UNCHANGED effects
  /\ UNCHANGED <<env, envBucket, queueVars, probe, pipe, laterVars>>

\* await convertToMp3(...), then uploadFileToGcs opens the write stream.
HConvert(h) ==
  /\ hpc[h] = "convert"
  /\ \/ Advance(h, "upload") /\ Touch(h, "destinationWrite")
     \/ Throw(h) /\ UNCHANGED effects
  /\ UNCHANGED <<env, envBucket, queueVars, probe, pipe, laterVars>>

\* await uploadFileToGcs(...), then gcsFile.getMetadata() is called.
HUpload(h) ==
  /\ hpc[h] = "upload"
  /\ \/ Advance(h, "uploadMeta")
     \/ Throw(h)
  /\ UNCHANGED <<env, envBucket, queueVars, probe, pipe, laterVars,
                 effects>>

\* await gcsFile.getMetadata(), then the first unlink is called.
HUploadMeta(h) ==
  /\ hpc[h] = "uploadMeta"
  /\ \/ Advance(h, "unlinkInput")
     \/ Throw(h)
  /\ UNCHANGED <<env, envBucket, queueVars, probe, pipe, laterVars,
                 effects>>

\* await fsp.unlink(inputPath): a failure is logged and the handler answers.
HUnlinkInput(h) ==
  /\ hpc[h] = "unlinkInput"
  /\ \/ Advance(h, "unlinkOutput") /\ Touch(h, "inputUnlinked")
     \/ /\ Respond(h, 200, FALSE, jobAcquired[h], hActiveJobs)
        /\ UNCHANGED <<jobAcquired, effects>>
  /\ UNCHANGED <<env, envBucket, queueVars, probe, pipe, laterVars>>

\* await fsp.unlink(outputPath): either way the handler answers 200.
HUnlinkOutput(h) ==
  /\ hpc[h] = "unlinkOutput"
  /\ Respond(h, 200, FALSE, jobAcquired[h], hActiveJobs)
  /\ \/ Touch(h, "outputUnlinked")
     \/ UNCHANGED effects
  /\ UNCHANGED <<env, envBucket, queueVars, probe, pipe, laterVars,
                 jobAcquired>>

HandlerNext ==
  \/ \E h \in Requests : HStart(h)
  \/ \E h \in Requests : HGetDrive(h)
  \/ \E h \in Requests : HGetMeta(h)
  \/ \E h \in Requests : HGetStorage(h)
  \/ \E h \in Requests : HExists(h)
  \/ \E h \in Requests : HReuseMeta(h)
  \/ \E h \in Requests : HDownload(h)
  \/ \E h \in Requests : HStreamToFile(h)
  \/ \E h \in Requests : HConvert(h)
  \/ \E h \in Requests : HUpload(h)
  \/ \E h \in Requests : HUploadMeta(h)
  \/ \E h \in Requests : HUnlinkInput(h)
  \/ \E h \in Requests : HUnlinkOutput(h)

\* The requests served by the processVideo of part_000.
HandlerSpec == Init /\ [][HandlerNext]_vars

\* ------------------------------------------------------------------------
\* src/unnamed/part_001: the events of one streaming convertStreamAndUpload
\* ------------------------------------------------------------------------
PipeUnchanged ==
  UNCHANGED <<env, envBucket, queueVars, handlerVars, probe, laterVars>>

\* The source ends: pipeline() ends ffmpeg.stdin.
SrcEnd ==
  /\ pipe.src = "open" /\ pipe.stdin = "open"
  /\ pipe' = [pipe EXCEPT !.src = "ended", !.stdin = "ended"]
  /\ PipeUnchanged

\* ffmpeg.stdin has flushed: pipeline() resolves.
StdinFinish ==
  /\ pipe.stdin = "ended"
  /\ pipe' = AwaitAll(Resolve([pipe EXCEPT !.stdin = "finished"], "pumpP"))
  /\ PipeUnchanged

\* The source emits 'error' while it is being read.
SrcError ==
  /\ pipe.src = "open"
  /\ pipe' = AwaitAll(OnSourceError([pipe EXCEPT !.src = "errored"],
                                    SourceError))
  /\ PipeUnchanged

\* ffmpeg writes on stderr: ffmpeg.stderr.on("data") logs the chunk.
StderrData ==
  /\ pipe.proc = "running" /\ ~pipe.diag
  /\ pipe' = [pipe EXCEPT !.diag = TRUE]
  /\ PipeUnchanged

\* The child exits, with 0 only after the end of its input; Node destroys
\* the parent's end of stdin.
ProcExit(code) ==
  /\ pipe.proc = "running"
  /\ code = 0 => pipe.stdin \in {"finished", "destroyed"}
  /\ pipe' = [pipe EXCEPT !.proc = "exited", !.code = code,
                          !.stdin = IF @ \in {"open", "ended"}
                                    THEN "destroyed" ELSE @]
  /\ PipeUnchanged

\* The child could not be spawned: Node destroys the parent's end of stdin
\* and emits 'error' on the child, ffmpeg.on("error", reject).
ProcSpawnError ==
  /\ pipe = NewPipeline
  /\ pipe' = AwaitAll(Reject([pipe EXCEPT !.proc = "failed", !.code = Null,
                                          !.stdin = "destroyed"],
                             "exitP", SpawnError))
  /\ PipeUnchanged

\* 'close' of a stdin that had not finished reaches pipeline().
PumpPrematureClose ==
  /\ pipe.stdin = "destroyed" /\ pipe.pumpP.st = "pending"
  /\ pipe' = AwaitAll(PipelineFail(pipe, PrematureClose))
  /\ PipeUnchanged

\* End of ffmpeg.stdout: stdout.pipe() ends the PassThrough.
StdoutEnd ==
  /\ pipe.proc # "running" /\ pipe.stdout = "open"
  /\ pipe' = [pipe EXCEPT !.stdout = "ended",
                          !.pt = IF @ = "open" THEN "ending" ELSE @]
  /\ PipeUnchanged

\* The PassThrough has handed over its last chunk: 'end', and
\* readStream.pipe(writeStream) ends the write stream.
ReadStreamEnd ==
  /\ pipe.pt = "ending"
  /\ pipe' = [pipe EXCEPT !.pt = "ended",
                          !.ws = IF @ = "open" THEN "ending" ELSE @]
  /\ PipeUnchanged

\* The upload completes: 'finish' of the write stream.
WriteFinish ==
  /\ pipe.ws = "ending"
  /\ pipe' = AwaitAll(onFinish([pipe EXCEPT
                                   !.ws = "finished",
                                   !.lateFinish = (pipe.src = "errored")]))
  /\ PipeUnchanged

\* The upload fails: 'error' of the write stream.
WriteFail ==
  /\ pipe.ws \in {"open", "ending"}
  /\ pipe' = AwaitAll(onWriteError([pipe EXCEPT !.ws = "errored"],
                                   WriteError))
  /\ PipeUnchanged

\* 'close' of the child, after its exit and the close of its stdout.
ProcClose ==
  /\ pipe.proc # "running" /\ ~pipe.closed /\ pipe.stdout # "open"
  /\ pipe' = AwaitAll(OnClose([pipe EXCEPT !.closed = TRUE], pipe.code))
  /\ PipeUnchanged

PipelineNext ==
  \/ SrcEnd
  \/ StdinFinish
  \/ SrcError
  \/ StderrData
  \/ \E code \in ExitCodes : ProcExit(code)
  \/ ProcSpawnError
  \/ PumpPrematureClose
  \/ StdoutEnd
  \/ ReadStreamEnd
  \/ WriteFinish
  \/ WriteFail
  \/ ProcClose

\* One invocation, with the admission control at rest.
PipelineInit == Init /\ env = <<"2">> /\ envBucket /\ rssMb = MAX_MEMORY_MB.n

PipelineSpec == PipelineInit /\ [][PipelineNext]_vars

\* What the event loop and the peers of the invocation do sooner or later.
\* Node delivers the events that are due: the close of a destroyed stdin,
\* the end of stdout after the child's exit, the end of the PassThrough and
\* the child's 'close'. The upload request whose stream was ended completes
\* or fails. ffmpeg, which reads pipe:0, exits once its stdin is closed.
\* Nothing is assumed of the source, of a running upload or of an ffmpeg
\* whose stdin is open.
PipelineFairness ==
  /\ WF_vars(PumpPrematureClose)
  /\ WF_vars(StdoutEnd)
  /\ WF_vars(ReadStreamEnd)
  /\ WF_vars(ProcClose)
  /\ WF_vars(WriteFinish \/ (pipe.ws = "ending" /\ WriteFail))
  /\ WF_vars(pipe.stdin \in {"finished", "destroyed"}
               /\ \E code \in ExitCodes : ProcExit(code))

PipelineFairSpec == PipelineSpec /\ PipelineFairness

\* ------------------------------------------------------------------------
\* src/unnamed/part_001: the data events of a streaming invocation in which
\* no leg fails
\* ------------------------------------------------------------------------
FlowUnchanged ==
  UNCHANGED <<env, envBucket, queueVars, handlerVars, probe, pipe, tmp, legacy>>

\* convertStreamAndUpload is called with a source of some content.
FlowStart(source) ==
  /\ ~flow.started
  /\ flow' = NewFlow(source)
  /\ FlowUnchanged

\* pipeline(readableStream, ffmpeg.stdin): a 'data' event of the source,
\* written to ffmpeg.stdin.
FlowSrcData ==
  /\ flow.started /\ flow.life.src = "open" /\ ~flow.srcPaused
  /\ flow.srcPos < Len(flow.source)
  /\ LET buf == write(flow.stdinBuf, flow.source[flow.srcPos + 1])
     IN flow' = [flow EXCEPT !.srcPos = @ + 1, !.stdinBuf = buf,
                             !.srcPaused = NeedDrain(buf, DefaultHighWaterMark)]
  /\ FlowUnchanged

\* The child reads the oldest chunk buffered on its stdin; 'drain' once
\* the buffer is empty.
FlowStdinFlush ==
  /\ flow.started /\ flow.stdinBuf # <<>>
  /\ flow.life.proc = "running"
  /\ Len(flow.ffIn) - Len(flow.ffOut) < TranscoderWindow
  /\ flow' = [flow EXCEPT !.ffIn = Append(@, Head(flow.stdinBuf)),
                          !.stdinBuf = Tail(@),
                          !.srcPaused = IF Tail(flow.stdinBuf) = <<>>
                                        THEN FALSE ELSE @]
  /\ FlowUnchanged

\* 'end' of the source, after its last chunk was delivered: pipeline()
\* ends ffmpeg.stdin.
FlowSrcEnd ==
  /\ flow.started /\ flow.life.src = "open" /\ ~flow.srcPaused
  /\ flow.srcPos = Len(flow.source)
  /\ flow' = [flow EXCEPT !.life.src = "ended", !.life.stdin = "ended"]
  /\ FlowUnchanged

\* ffmpeg.stdin has flushed: 'finish', pipeline() resolves.
FlowStdinFinish ==
  /\ flow.started /\ flow.life.stdin = "ended" /\ flow.stdinBuf = <<>>
  /\ flow' = [flow EXCEPT
                !.life = AwaitAll(Resolve([@ EXCEPT !.stdin = "finished"],
                                          "pumpP"))]
  /\ FlowUnchanged

\* The child writes the transcoding of the oldest chunk it holds to its
\* stdout, which it can do while the pipe has room.
FlowTranscode ==
  /\ flow.started /\ flow.life.proc = "running"
  /\ Len(flow.ffOut) < Len(flow.ffIn)
  /\ Len(flow.stdoutBuf) < DefaultHighWaterMark
  /\ LET chunk == Transcode(flow.ffIn[Len(flow.ffOut) + 1])
     IN flow' = [flow EXCEPT !.ffOut = Append(@, chunk),
                             !.stdoutBuf = Append(@, chunk)]
  /\ FlowUnchanged

\* The child has read end-of-input and written its last chunk: it exits
\* with status 0.
FlowProcExit ==
  /\ flow.started /\ flow.life.proc = "running"
  /\ flow.life.stdin = "finished"
  /\ Len(flow.ffOut) = Len(flow.ffIn)
  /\ flow' = [flow EXCEPT !.life.proc = "exited", !.life.code = 0]
  /\ FlowUnchanged

\* ffmpeg.stdout.pipe(throttledTranscodeStream): a 'data' event of stdout,
\* written to the PassThrough.
FlowStdoutData ==
  /\ flow.started /\ flow.life.stdout = "open" /\ ~flow.stdoutPaused
  /\ flow.stdoutBuf # <<>>
  /\ LET t == Transform(write(flow.ptW, Head(flow.stdoutBuf)), flow.ptR,
                        TRANSCODE_STREAM_HIGH_WATER_MARK)
     IN flow' = [flow EXCEPT
                   !.stdoutBuf = Tail(@), !.ptW = t.w, !.ptR = t.r,
                   !.stdoutPaused =
                     NeedDrain(t.w, TRANSCODE_STREAM_HIGH_WATER_MARK)]
  /\ FlowUnchanged

\* readStream.pipe(writeStream): a 'data' event of the PassThrough, written
\* to the destination's write stream; the PassThrough then takes the next
\* chunk of its writable side, and emits 'drain' once that side is empty.
FlowReadStreamData ==
  /\ flow.started /\ flow.life.pt \in {"open", "ending"} /\ ~flow.ptPaused
  /\ flow.ptR # <<>>
  /\ LET buf == write(flow.wsBuf, Head(flow.ptR))
         t == Transform(flow.ptW, Tail(flow.ptR),
                        TRANSCODE_STREAM_HIGH_WATER_MARK)
     IN flow' = [flow EXCEPT
                   !.wsBuf = buf, !.ptW = t.w, !.ptR = t.r,
                   !.ptPaused = NeedDrain(buf, GCS_UPLOAD_HIGH_WATER_MARK),
                   !.stdoutPaused = IF t.w = <<>> THEN FALSE ELSE @]
  /\ FlowUnchanged

\* The destination accepts the oldest chunk of the write stream; 'drain'
\* once the buffer is empty.
FlowWriteFlush ==
  /\ flow.started /\ flow.wsBuf # <<>>
  /\ flow.life.ws \in {"open", "ending"}
  /\ flow' = [flow EXCEPT !.written = Append(@, Head(flow.wsBuf)),
                          !.wsBuf = Tail(@),
                          !.ptPaused = IF Tail(flow.wsBuf) = <<>>
                                       THEN FALSE ELSE @]
  /\ FlowUnchanged

\* 'end' of ffmpeg.stdout, after its last chunk was delivered: pipe() ends
\* the PassThrough.
FlowStdoutEnd ==
  /\ flow.started /\ flow.life.proc # "running" /\ flow.life.stdout = "open"
  /\ flow.stdoutBuf = <<>> /\ ~flow.stdoutPaused
  /\ flow' = [flow EXCEPT !.life.stdout = "ended", !.life.pt = "ending"]
  /\ FlowUnchanged

FlowReadStreamEnd_noend ==
  /\ flow.started /\ flow.life.pt = "ending"
  /\ flow.ptW = <<>> /\ flow.ptR = <<>> /\ ~flow.ptPaused
  /\ flow' = [flow EXCEPT !.life.pt = "ended"]
  /\ FlowUnchanged

\* 'end' of the PassThrough, after its last chunk was delivered: pipe()
\* ends the write stream.
FlowReadStreamEnd ==
  /\ flow.started /\ flow.life.pt = "ending"
  /\ flow.ptW = <<>> /\ flow.ptR = <<>> /\ ~flow.ptPaused
  /\ flow' = [flow EXCEPT !.life.pt = "ended", !.life.ws = "ending"]
  /\ FlowUnchanged

\* The write stream has flushed and the destination has finalized the
\* object: 'finish'.
FlowWriteFinish ==
  /\ flow.started /\ flow.life.ws = "ending" /\ flow.wsBuf = <<>>
  /\ flow' = [flow EXCEPT
                !.life = AwaitAll(onFinish([@ EXCEPT !.ws = "finished"])),
                !.finalized = @ + 1]
  /\ FlowUnchanged

\* 'close' of the child, after its exit and the end of its stdout.
FlowProcClose ==
  /\ flow.started /\ flow.life.proc # "running" /\ ~flow.life.closed
  /\ flow.life.stdout # "open"
  /\ flow' = [flow EXCEPT
                !.life = AwaitAll(OnClose([@ EXCEPT !.closed = TRUE],
                                          flow.life.code))]
  /\ FlowUnchanged

FlowNext ==
  \/ \E source \in Sources : FlowStart(source)
  \/ FlowSrcData
  \/ FlowStdinFlush
  \/ FlowSrcEnd
  \/ FlowStdinFinish
  \/ FlowTranscode
  \/ FlowProcExit
  \/ FlowStdoutData
  \/ FlowReadStreamData
  \/ FlowWriteFlush
  \/ FlowStdoutEnd
  \/ FlowReadStreamEnd
  \/ FlowWriteFinish
  \/ FlowProcClose

FlowSpec == PipelineInit /\ [][FlowNext]_vars

\* The premises of a successful run: the source keeps delivering and ends,
\* the child keeps reading, transcoding and exits once its input has ended,
\* the destination keeps accepting and finalizes; and the event loop runs
\* every callback that is ready.
FlowFairness ==
  /\ WF_vars(FlowSrcData) /\ WF_vars(FlowSrcEnd)
  /\ WF_vars(FlowStdinFlush) /\ WF_vars(FlowStdinFinish)
  /\ WF_vars(FlowTranscode) /\ WF_vars(FlowProcExit)
  /\ WF_vars(FlowStdoutData) /\ WF_vars(FlowStdoutEnd)
  /\ WF_vars(FlowReadStreamData) /\ WF_vars(FlowReadStreamEnd)
  /\ WF_vars(FlowWriteFlush) /\ WF_vars(FlowWriteFinish)
  /\ WF_vars(FlowProcClose)

FlowFairSpec == FlowSpec /\ FlowFairness

\* ------------------------------------------------------------------------
\* src/index.js lines 218-389: processVideo, which holds the source and the
\* MP3 in memory and has no admission control
\* ------------------------------------------------------------------------
LegacyUnchanged ==
  UNCHANGED <<env, queueVars, handlerVars, probe, pipe, flow, tmp>>

\* The invocation awaits the next call.
LAdvance(r, pc) == legacy' = [legacy EXCEPT ![r].pc = pc]

\* res.status(status).json(...): the invocation returns, and its locals
\* are no longer referenced.
LRespond(r, status, isReused) ==
  legacy' = [legacy EXCEPT ![r].pc = "done", ![r].resp = status,
                           ![r].reused = isReused,
                           ![r].videoBuffer = 0, ![r].audioBuffer = 0]

\* An awaited call rejects: catch (err), status 500.
LThrow(r) == LRespond(r, 500, FALSE)

\* The checks on the method and the body, then getDriveClientForUser.
LStart(r, isPost, hasFileId, hasUserEmail, size) ==
  /\ legacy[r].pc = "idle"
  /\ IF ~isPost THEN LRespond(r, 405, FALSE)
     ELSE IF ~hasFileId \/ ~hasUserEmail THEN LRespond(r, 400, FALSE)
     ELSE legacy' = [legacy EXCEPT ![r].pc = "driveClient", ![r].size = size]
  /\ UNCHANGED envBucket
  /\ LegacyUnchanged

\* await getDriveClientForUser(userEmail)
LDriveClient(r) ==
  /\ legacy[r].pc = "driveClient"
  /\ LAdvance(r, "metadata") \/ LThrow(r)
  /\ UNCHANGED envBucket
  /\ LegacyUnchanged

\* await drive.files.get({ fileId, fields }), then the check of
\* process.env.GCS_AUDIO_BUCKET
LMetadata(r) ==
  /\ legacy[r].pc = "metadata"
  /\ \/ IF envBucket THEN LAdvance(r, "storage") ELSE LThrow(r)
     \/ LThrow(r)
  /\ UNCHANGED envBucket
  /\ LegacyUnchanged

\* await getStorageClient()
LStorage(r) ==
  /\ legacy[r].pc = "storage"
  /\ LAdvance(r, "exists") \/ LThrow(r)
  /\ UNCHANGED envBucket
  /\ LegacyUnchanged

\* const [alreadyExists] = await gcsFile.exists()
LExists(r) ==
  /\ legacy[r].pc = "exists"
  /\ \/ \E alreadyExists \in BOOLEAN :
          LAdvance(r, IF alreadyExists THEN "reuseMeta" ELSE "download")
     \/ LThrow(r)
  /\ UNCHANGED envBucket
  /\ LegacyUnchanged

\* [gcsMetadata] = await gcsFile.getMetadata(), status 200 with reused: true
LReuseMeta(r) ==
  /\ legacy[r].pc = "reuseMeta"
  /\ LRespond(r, 200, TRUE) \/ LThrow(r)
  /\ UNCHANGED envBucket
  /\ LegacyUnchanged

\* await drive.files.get({ fileId, alt: "media" },
\* { responseType: "arraybuffer" }), Buffer.from(downloadResp.data): the
\* whole source is in memory.
LDownload(r) ==
  /\ legacy[r].pc = "download"
  /\ \/ legacy' = [legacy EXCEPT ![r].pc = "writeFile",
                                 ![r].videoBuffer = legacy[r].size]
     \/ LThrow(r)
  /\ UNCHANGED envBucket
  /\ LegacyUnchanged

\* await fsp.writeFile(inputPath, videoBuffer)
LWriteFile(r) ==
  /\ legacy[r].pc = "writeFile"
  /\ \/ legacy' = [legacy EXCEPT ![r].pc = "convert", ![r].inputFile = TRUE]
     \/ LThrow(r)
  /\ UNCHANGED envBucket
  /\ LegacyUnchanged

\* await convertToMp3(inputPath, outputPath): resolves on exit code 0,
\* rejects otherwise.
LConvert(r) ==
  /\ legacy[r].pc = "convert"
  /\ \/ legacy' = [legacy EXCEPT ![r].pc = "readFile", ![r].outputFile = TRUE]
     \/ LThrow(r)
  /\ UNCHANGED envBucket
  /\ LegacyUnchanged

\* audioBuffer = await fsp.readFile(outputPath): the whole MP3 is in
\* memory, beside the source.
LReadFile(r) ==
  /\ legacy[r].pc = "readFile"
  /\ \/ legacy' = [legacy EXCEPT ![r].pc = "save",
                                 ![r].audioBuffer = legacy[r].size]
     \/ LThrow(r)
  /\ UNCHANGED envBucket
  /\ LegacyUnchanged

\* await gcsFile.save(audioBuffer, ...), await gcsFile.getMetadata()
LSave(r) ==
  /\ legacy[r].pc = "save"
  /\ LAdvance(r, "cleanup") \/ LThrow(r)
  /\ UNCHANGED envBucket
  /\ LegacyUnchanged

\* try { unlink(inputPath); unlink(outputPath) } catch: a failed unlink
\* is logged and skips what follows it; then status 200.
LCleanup(r) ==
  /\ legacy[r].pc = "cleanup"
  /\ \E unlinked \in 0..2 :
       legacy' = [legacy EXCEPT ![r].pc = "done", ![r].resp = 200,
                                ![r].videoBuffer = 0, ![r].audioBuffer = 0,
                                ![r].inputFile = (unlinked = 0),
                                ![r].outputFile = (unlinked < 2)]
  /\ UNCHANGED envBucket
  /\ LegacyUnchanged

LegacyNext ==
  \/ \E r \in LegacyRequests, isPost, hasFileId, hasUserEmail \in BOOLEAN,
        size \in 1..MaxChunks :
       LStart(r, isPost, hasFileId, hasUserEmail, size)
  \/ \E r \in LegacyRequests : LDriveClient(r)
  \/ \E r \in LegacyRequests : LMetadata(r)
  \/ \E r \in LegacyRequests : LStorage(r)
  \/ \E r \in LegacyRequests : LExists(r)
  \/ \E r \in LegacyRequests : LReuseMeta(r)
  \/ \E r \in LegacyRequests : LDownload(r)
  \/ \E r \in LegacyRequests : LWriteFile(r)
  \/ \E r \in LegacyRequests : LConvert(r)
  \/ \E r \in LegacyRequests : LReadFile(r)
  \/ \E r \in LegacyRequests : LSave(r)
  \/ \E r \in LegacyRequests : LCleanup(r)

\* The admission control at rest; the bucket variable set or unset.
LegacyInit == Init /\ env = <<"2">> /\ rssMb = MAX_MEMORY_MB.n

LegacySpec == LegacyInit /\ [][LegacyNext]_vars

\* ------------------------------------------------------------------------
\* lib/mediaPipeline.js: the temp-file convertStreamAndUpload
\* ------------------------------------------------------------------------
TempUnchanged ==
  UNCHANGED <<env, envBucket, queueVars, handlerVars, probe, pipe, flow,
              legacy>>

\* const inputPath = makeTempPath("input", ".mp4"), const outputPath =
\* makeTempPath("output", ".mp3"), then downloadStreamToFile is called.
TStart(j, r1, r2) ==
  /\ tmp.job[j].pc = "idle"
  /\ tmp' = [tmp EXCEPT
               !.job[j] =
                 [@ EXCEPT !.pc = "download", !.ingest = "active",
                           !.inputPath = makeTempPath("input", ".mp4", now, r1),
                           !.outputPath =
                             makeTempPath("output", ".mp3", now, r2)]]
  /\ TempUnchanged

TDownload_ungated(j) ==
  /\ tmp.job[j].pc = "download"
  /\ \E ok, created \in BOOLEAN :
       /\ ok => created
       /\ tmp' = [tmp EXCEPT
                    !.fs = IF created THEN @ \cup {tmp.job[j].inputPath}
                           ELSE @,
                    !.job[j] =
                      [@ EXCEPT !.pc = "convert",
                                !.ingest = IF ok THEN "done" ELSE "failed",
                                !.err = IF ok THEN "none" ELSE "download"]]
  /\ TempUnchanged

\* await downloadStreamToFile(readableStream, inputPath): the pipeline to
\* fs.createWriteStream(inputPath) ends or fails; the file exists once the
\* write stream has opened it.
TDownload(j) ==
  /\ tmp.job[j].pc = "download"
  /\ \E ok, created \in BOOLEAN :
       /\ ok => created
       /\ tmp' = [tmp EXCEPT
                    !.fs = IF created THEN @ \cup {tmp.job[j].inputPath}
                           ELSE @,
                    !.job[j] =
                      [@ EXCEPT !.pc = IF ok THEN "convert" ELSE "cleanup",
                                !.ingest = IF ok THEN "done" ELSE "failed",
                                !.err = IF ok THEN "none" ELSE "download"]]
  /\ TempUnchanged

\* convertFileToMp3(inputPath, outputPath): ffmpeg is spawned.
TConvertSpawn(j) ==
  /\ tmp.job[j].pc = "convert"
  /\ tmp' = [tmp EXCEPT
               !.job[j] = [@ EXCEPT !.pc = "converting",
                                    !.transcode = "active",
                                    !.atSpawn = tmp.job[j].ingest]]
  /\ TempUnchanged

\* ffmpeg.on("close", code): resolve on 0, reject otherwise; ffmpeg exits
\* with 0 only if it could read inputPath and has written outputPath.
TConvertClose(j, code) ==
  /\ tmp.job[j].pc = "converting"
  /\ code = 0 => tmp.job[j].inputPath \in tmp.fs
  /\ \E wrote \in BOOLEAN :
       /\ code = 0 => wrote
       /\ tmp' = [tmp EXCEPT
                    !.fs = IF wrote THEN @ \cup {tmp.job[j].outputPath}
                           ELSE @,
                    !.job[j] =
                      [@ EXCEPT !.pc = IF code = 0 THEN "upload"
                                       ELSE "cleanup",
                                !.transcode = IF code = 0 THEN "done"
                                              ELSE "failed",
                                !.err = IF code = 0 THEN "none"
                                        ELSE "transcode"]]
  /\ TempUnchanged

\* uploadFileToGcs(outputPath, gcsFile, metadata): the pipeline from
\* fs.createReadStream(outputPath) to gcsFile.createWriteStream starts.
TUploadStart(j) ==
  /\ tmp.job[j].pc = "upload"
  /\ tmp' = [tmp EXCEPT
               !.job[j] = [@ EXCEPT !.pc = "uploading", !.egress = "active",
                                    !.atUpload = tmp.job[j].transcode]]
  /\ TempUnchanged

\* The upload pipeline ends or fails; it ends only if outputPath could be
\* read.
TUploadEnd(j) ==
  /\ tmp.job[j].pc = "uploading"
  /\ \E ok \in BOOLEAN :
       /\ ok => tmp.job[j].outputPath \in tmp.fs
       /\ tmp' = [tmp EXCEPT
                    !.job[j] =
                      [@ EXCEPT !.pc = "cleanup",
                                !.egress = IF ok THEN "done" ELSE "failed",
                                !.err = IF ok THEN "none" ELSE "upload"]]
  /\ TempUnchanged

Settle_unlinkThrows(err, unlinkFailed) ==
  IF unlinkFailed THEN [out |-> "rejected", outErr |-> "unlink"]
  ELSE IF err = "none" THEN [out |-> "resolved", outErr |-> "none"]
  ELSE [out |-> "rejected", outErr |-> err]

\* try { ... } finally { await cleanupFiles(...) }: cleanupFiles catches
\* the error of each unlink, so the call resolves when the try block threw
\* nothing and otherwise rejects with the error the try block threw.
Settle(err, unlinkFailed) ==
  IF err = "none" THEN [out |-> "resolved", outErr |-> "none"]
  ELSE [out |-> "rejected", outErr |-> err]

\* finally { await cleanupFiles(inputPath, outputPath) }: both unlinks are
\* called; each removes its file or fails (the file is absent, or it is
\* kept by an error of the file system); then the call settles.
TCleanup(j) ==
  /\ tmp.job[j].pc = "cleanup"
  /\ \E kept \in SUBSET {tmp.job[j].inputPath, tmp.job[j].outputPath} :
       LET paths == {tmp.job[j].inputPath, tmp.job[j].outputPath}
           settled == Settle(tmp.job[j].err,
                             kept # {} \/ ~(paths \subseteq tmp.fs))
       IN tmp' = [tmp EXCEPT
                    !.fs = unlinkAll(@, paths \ kept),
                    !.job[j] = [@ EXCEPT !.pc = "done", !.unlinks = 2,
                                         !.out = settled.out,
                                         !.outErr = settled.outErr]]
  /\ TempUnchanged

TempFileNext ==
  \/ \E j \in Jobs, r1, r2 \in {1, 2} : TStart(j, r1, r2)
  \/ \E j \in Jobs : TDownload(j)
  \/ \E j \in Jobs : TConvertSpawn(j)
  \/ \E j \in Jobs, code \in ExitCodes : TConvertClose(j, code)
  \/ \E j \in Jobs : TUploadStart(j)
  \/ \E j \in Jobs : TUploadEnd(j)
  \/ \E j \in Jobs : TCleanup(j)

TempFileSpec == PipelineInit /\ [][TempFileNext]_vars

Next ==
  \/ QueueNext
  \/ HandlerNext
  \/ HasAvailableJobSlot
  \/ PipelineNext
  \/ FlowNext
  \/ LegacyNext
  \/ TempFileNext

Spec == Init /\ [][Next]_vars

\* ------------------------------------------------------------------------
\* Properties
\* ------------------------------------------------------------------------

\* The invocations of processVideo between tryAcquireJobSlot and the
\* finally block.
Running == {h \in Requests : jobAcquired[h] /\ hpc[h] \notin {"start", "done"}}

\* C1: the held-slot counter stays within 0..MAX_CONCURRENT_JOBS: it is
\* never negative and, as soon as a slot is held, it is at most
\* MAX_CONCURRENT_JOBS, in jobQueue.js and in part_000 alike.
C1_SlotCounterWithinLimit ==
  /\ activeJobs >= 0
  /\ activeJobs > 0 => JsLe(activeJobs, MAX_CONCURRENT_JOBS)
  /\ hActiveJobs >= 0
  /\ hActiveJobs > 0 => JsLe(hActiveJobs, MAX_CONCURRENT_JOBS)

\* C2: the number of processVideo invocations between a successful slot
\* acquisition and their release is at most MAX_CONCURRENT_JOBS.
C2_RunningPipelinesWithinLimit ==
  Running # {} => JsLe(Cardinality(Running), MAX_CONCURRENT_JOBS)

\* C3: a poll of acquireJobSlotWithMemoryGuard grants a slot only when
\* activeJobs < MAX_CONCURRENT_JOBS and the memory it sampled is at most
\* MAX_MEMORY_MB, and the grant increases activeJobs by exactly one.
C3_GrantOnlyWhenBothConditionsHold ==
  [][\A c \in Callers :
       (cpc[c] # "holding" /\ cpc'[c] = "holding")
         => /\ JsLt(activeJobs, MAX_CONCURRENT_JOBS)
            /\ JsLe(rssMb, MAX_MEMORY_MB)
            /\ activeJobs' = activeJobs + 1]_vars

\* C4: an invocation that acquired a slot has called releaseJobSlot exactly
\* once when it ends, on every exit path, and not before; an invocation
\* that did not acquire a slot never calls it.
C4_ReleasedExactlyOncePerAcquisition ==
  \A h \in Requests :
    /\ hReleases[h] <= 1
    /\ hReleases[h] = 1 => jobAcquired[h]
    /\ hpc[h] = "done" => hReleases[h] = (IF jobAcquired[h] THEN 1 ELSE 0)
    /\ hpc[h] # "done" => hReleases[h] = 0

\* One invocation ended by an exception, one answered with the existing
\* object and one rejected with 429.
C4_Witness ==
  \E h1, h2, h3 \in Requests :
    /\ hpc[h1] = "done" /\ resp[h1] = 500 /\ jobAcquired[h1]
    /\ hpc[h2] = "done" /\ resp[h2] = 200 /\ reused[h2] /\ jobAcquired[h2]
    /\ hpc[h3] = "done" /\ resp[h3] = 429 /\ ~jobAcquired[h3]
    /\ hReleases[h1] = 1 /\ hReleases[h2] = 1 /\ hReleases[h3] = 0

\* C5: a call whose every poll sampled memory above the ceiling is never
\* granted a slot; once one of its polls finds the elapsed time above the
\* timeout it has failed with the timeout error; and the failing poll
\* leaves activeJobs as it was.
C5_MemoryTimeoutHoldsNoSlot ==
  /\ [](\A c \in Callers :
          allHigh[c] =>
            /\ cpc[c] \in {"idle", "waiting", "failed"}
            /\ (cpc[c] # "idle"
                /\ polledAt[c] - cstart[c] > JOB_QUEUE_TIMEOUT_MS)
                 => (cpc[c] = "failed" /\ cerr[c].thrown))
  /\ [][\A c \in Callers :
          (cpc[c] # "failed" /\ cpc'[c] = "failed")
            => activeJobs' = activeJobs]_vars

\* A call failed after seeing only memory above the ceiling while a slot
\* was free.
C5_Witness ==
  \E c \in Callers :
    /\ cpc[c] = "failed" /\ allHigh[c] /\ cerr[c].thrown
    /\ polledAt[c] - cstart[c] > JOB_QUEUE_TIMEOUT_MS
    /\ activeJobs = 0 /\ JsLt(activeJobs, MAX_CONCURRENT_JOBS)

\* C6: every grant of acquireJobSlotWithMemoryGuard happens at an elapsed
\* time, measured from the start of the call, no greater than
\* JOB_QUEUE_TIMEOUT_MS.
C6_NoGrantAfterDeadline ==
  \A c \in Callers :
    cpc[c] = "holding" => polledAt[c] - cstart[c] <= JOB_QUEUE_TIMEOUT_MS

\* C7 as stated: the timeout error carries the configured wait timeout and
\* the elapsed waiting duration.
C7_ErrorCarriesElapsedAndTimeout ==
  \A c \in Callers :
    cerr[c].thrown =>
      /\ JOB_QUEUE_TIMEOUT_MS \in cerr[c].values
      /\ (polledAt[c] - cstart[c]) \in cerr[c].values

\* C7 amended: the timeout error is thrown exactly by the failed calls and
\* carries the configured wait timeout and no other number, in particular
\* not the elapsed waiting duration.
C7_ErrorCarriesTimeoutOnly ==
  \A c \in Callers :
    /\ cerr[c].thrown <=> cpc[c] = "failed"
    /\ cerr[c].thrown =>
         /\ cerr[c].values = {JOB_QUEUE_TIMEOUT_MS}
         /\ (polledAt[c] - cstart[c]) \notin cerr[c].values

\* A call has thrown the timeout error.
C7_Witness ==
  \E c \in Callers :
    cpc[c] = "failed" /\ cerr[c].thrown
      /\ polledAt[c] - cstart[c] > JOB_QUEUE_TIMEOUT_MS

\* C8: releaseJobSlot takes activeJobs from a positive value to one less
\* and from 0 to 0; the counter is never negative.
C8_ReleaseDecrementsFlooredAtZero ==
  /\ activeJobs >= 0
  /\ lastCall.op = "release" =>
       /\ lastCall.before > 0 => activeJobs = lastCall.before - 1
       /\ lastCall.before = 0 => activeJobs = 0

\* releaseJobSlot has just run with the counter at 0.
C8_Witness ==
  lastCall.op = "release" /\ lastCall.before = 0 /\ activeJobs = 0

\* C9: the second release of one acquisition leaves activeJobs as the
\* first release left it.
C9_DoubleReleaseIsNoOp ==
  (lastCall.op = "release" /\ cpc[lastCall.by] = "released2")
    => activeJobs = lastCall.before

\* C10: a release that directly follows the same caller's successful
\* acquire leaves activeJobs at its value before that acquire.
C10_AcquireThenReleaseRestores ==
  (lastCall.op = "release" /\ lastCall.origin >= 0)
    => activeJobs = lastCall.origin

\* An acquire from activeJobs = 1 below the limit, directly followed by
\* the release.
C10_Witness ==
  /\ lastCall.op = "release" /\ lastCall.origin = 1
  /\ JsLt(lastCall.origin, MAX_CONCURRENT_JOBS)

\* C11: hasAvailableJobSlot returns true exactly when activeJobs is below
\* MAX_CONCURRENT_JOBS, returns in the step that called it and changes
\* neither the counter nor any caller or invocation.
C11_CapacityCheckIsPure ==
  [][probe' # probe
       => /\ probe'.seq # probe.seq
          /\ probe'.value = JsLt(activeJobs, MAX_CONCURRENT_JOBS)
          /\ UNCHANGED <<env, envBucket, queueVars, handlerVars, pipe,
                         laterVars>>]_vars

\* hasAvailableJobSlot has answered false with every slot held.
C11_Witness ==
  /\ probe.seq = 1 /\ ~probe.value
  /\ activeJobs >= 1
  /\ ~MAX_CONCURRENT_JOBS.nan /\ activeJobs = MAX_CONCURRENT_JOBS.n

\* C12: as long as every release followed the releasing caller's own
\* successful acquire, in any interleaving of the callers, activeJobs is the
\* number of successful acquisitions not yet released.
C12_NoLostUpdate ==
  (\A c \in Callers : cpc[c] # "released2")
    => activeJobs = Cardinality({c \in Callers : cpc[c] = "holding"})

\* Two callers acquired, one of them has released, the other holds.
C12_Witness ==
  /\ \A c \in Callers : cpc[c] # "released2"
  /\ \E c, d \in Callers :
       /\ cpc[c] = "released" /\ cpc[d] = "holding"
       /\ polledAt[d] > cstart[d]
  /\ activeJobs = 1

\* C13 as stated: of five concurrent calls against two slots exactly two
\* are granted at their first attempt and three wait, and every one of the
\* three waiters is granted before its timeout, so that no call fails.
C13_AllFiveGranted ==
  /\ (now = 0 /\ \A c \in BurstCallers : cpc[c] # "idle")
       => /\ Cardinality({c \in BurstCallers :
                            cpc[c] \in {"holding", "released"}}) = 2
          /\ Cardinality({c \in BurstCallers : cpc[c] = "waiting"}) = 3
  /\ \A c \in BurstCallers : cpc[c] # "failed"

\* C13, amended: exactly two of the five calls are granted at their first
\* attempt and three wait; a waiter is granted by the first of its polls
\* that finds fewer than two slots held, and it fails only at a poll that
\* finds both slots held more than JOB_QUEUE_TIMEOUT_MS after its call.
C13_GrantedAtFirstFreePoll ==
  /\ []((now = 0 /\ \A c \in BurstCallers : cpc[c] # "idle")
          => /\ Cardinality({c \in BurstCallers :
                               cpc[c] \in {"holding", "released"}}) = 2
             /\ Cardinality({c \in BurstCallers : cpc[c] = "waiting"}) = 3)
  /\ [][\A c \in BurstCallers :
          /\ (cpc[c] = "waiting" /\ cpc'[c] = "failed")
               => /\ activeJobs = 2 /\ activeJobs' = 2
                  /\ now - cstart[c] > JOB_QUEUE_TIMEOUT_MS
          /\ (cpc[c] = "waiting" /\ polledAt'[c] # polledAt[c]
                                 /\ activeJobs < 2)
               => /\ cpc'[c] = "holding"
                  /\ activeJobs' = activeJobs + 1]_vars

\* All five calls were granted and have released, three of them after
\* waiting.
C13_Witness ==
  /\ \A c \in BurstCallers : cpc[c] = "released"
  /\ activeJobs = 0
  /\ now >= JOB_SLOT_WAIT_INTERVAL_MS

\* C14: the streaming convertStreamAndUpload resolves only if the pump from
\* the source to stdin completed, ffmpeg closed with exit code 0 and the
\* upload finished; once the source has emitted an error, ffmpeg has closed
\* with another code or could not be spawned, or the write stream has
\* emitted an error, the call has rejected.
C14_ResolvesOnlyIfAllLegsSucceeded ==
  /\ pipe.out = "resolved"
       => /\ pipe.src = "ended" /\ pipe.stdin = "finished"
          /\ pipe.proc = "exited" /\ pipe.closed /\ pipe.code = 0
          /\ pipe.ws = "finished"
  /\ (\/ pipe.src = "errored"
      \/ pipe.proc = "failed"
      \/ pipe.closed /\ pipe.code # 0
      \/ pipe.ws = "errored") => pipe.out = "rejected"

\* The call has resolved.
C14_Witness ==
  /\ pipe.out = "resolved"
  /\ pipe.pumpP.st = "resolved" /\ pipe.exitP.st = "resolved"
  /\ pipe.uploadP.st = "resolved"

\* C15: once the source stream has emitted an error, ffmpeg's stdin is
\* destroyed and the write stream is aborted: it is destroyed or errored,
\* unless it had finished before the error, and it emits no 'finish' after
\* the error.
C15_SourceErrorAbortsDestination ==
  pipe.src = "errored"
    => /\ pipe.stdin = "destroyed"
       /\ pipe.ws \in {"destroyed", "errored", "finished"}
       /\ ~pipe.lateFinish

\* C16: once ffmpeg has exited with a status other than 0, the write stream
\* is never ended or finished, and when the pump has settled the source is
\* no longer read.
C16_FailedTranscodeAbortsDestination ==
  (pipe.proc = "exited" /\ pipe.code # 0)
    => /\ pipe.ws \notin {"ending", "finished"}
       /\ pipe.pumpP.st # "pending" => pipe.src # "open"

\* C17: when the exit of ffmpeg with a status other than 0 is the first
\* failure, then once the child has closed the call has rejected with the
\* exit error, which carries the exit status and what ffmpeg wrote on
\* stderr.
C17_ExitErrorCarriesStatusAndStderr ==
  (/\ pipe.proc = "exited" /\ pipe.closed /\ pipe.code # 0
   /\ pipe.first.kind \in {"exit", "premature"})
    => /\ pipe.out = "rejected"
       /\ pipe.outErr.kind = "exit"
       /\ pipe.outErr.code = pipe.code
       /\ pipe.diag => pipe.outErr.stderr

\* C18: once the write stream has emitted an error, the source is no longer
\* read and the ffmpeg child is no longer running.
C18_EgressFailureStopsPumpAndProcess ==
  pipe.ws = "errored" => pipe.src # "open" /\ pipe.proc # "running"

\* C19: a call that has rejected carries the error of the first promise
\* that rejected, and no error of the teardown has left the call another
\* way: no stream has emitted an 'error' without a listener.
C19_ExactlyOneErrorSurfaced ==
  pipe.out = "rejected" => pipe.outErr = pipe.first /\ pipe.uncaught = {}

\* C20: once the call has resolved or rejected, the ffmpeg child has exited
\* and the source, stdin, stdout, the PassThrough and the write stream are
\* ended or destroyed.
C20_NothingLeftOpenAtReturn ==
  pipe.out # "pending"
    => /\ pipe.proc # "running"
       /\ pipe.src # "open"
       /\ pipe.stdin \notin {"open", "ended"}
       /\ pipe.stdout # "open"
       /\ pipe.pt \notin {"open", "ending"}
       /\ pipe.ws \notin {"open", "ending"}

\* One of the three legs has failed: the source emitted an error, ffmpeg
\* exited with a status other than 0 or could not be spawned, or the write
\* stream emitted an error.
LegFailed ==
  \/ pipe.src = "errored"
  \/ pipe.proc = "exited" /\ pipe.code # 0
  \/ pipe.proc = "failed"
  \/ pipe.ws = "errored"

C22_BytesArePipedExactly ==
  flow.started =>
    /\ flow.written \o flow.wsBuf \o flow.ptR \o flow.ptW \o flow.stdoutBuf
         = flow.ffOut
    /\ flow.ffIn \o flow.stdinBuf = SubSeq(flow.source, 1, flow.srcPos)
    /\ flow.life.out = "resolved"
         => /\ flow.written = flow.ffOut
            /\ flow.ffIn = flow.source
            /\ Len(flow.ffOut) = Len(flow.source)

C22_Witness ==
  /\ flow.life.out = "resolved"
  /\ flow.source = <<1, 2, 1>>
  /\ flow.written = <<3, 4, 3>>

\* C23: no leg of an invocation ever holds more data than its configured
\* highWaterMark: the source bytes held by ingest stay within
\* TRANSCODE_STREAM_HIGH_WATER_MARK and the output bytes held by egress stay
\* within GCS_UPLOAD_HIGH_WATER_MARK, so neither the whole source nor the
\* whole output of a larger file is ever in memory.
C23_BuffersStayWithinHighWaterMark ==
  \A r \in LegacyRequests :
    /\ legacy[r].videoBuffer <= TRANSCODE_STREAM_HIGH_WATER_MARK
    /\ legacy[r].audioBuffer <= GCS_UPLOAD_HIGH_WATER_MARK

\* C24: in every invocation the legs overlap: when the transcoder is
\* started ingest has not finished, and when egress is started the
\* transcoder has not exited.
C24_LegsRunConcurrently ==
  \A j \in Jobs :
    /\ tmp.job[j].transcode # "idle" => tmp.job[j].atSpawn # "done"
    /\ tmp.job[j].egress # "idle" => tmp.job[j].atUpload # "done"

\* C25: at no point of an invocation does a file written by the pipeline
\* exist in the temporary directory.
C25_NoTemporaryFile == tmp.fs = {}

FileIdOf(h) == IF h <= 2 THEN "f1" ELSE "f2"

\* path.join(TMP_DIR, `input-${fileId}.mp4`)
inputPath(h) == <<"input-", FileIdOf(h), ".mp4">>

\* path.join(TMP_DIR, `output-${fileId}.mp3`)
outputPath(h) == <<"output-", FileIdOf(h), ".mp3">>

\* C27: with a valid limit of two concurrent jobs, two invocations that are
\* between the start of streamToFile and their response at the same time
\* use different intermediate file paths, also when both requests name the
\* same source file.
C27_NoSharedIntermediatePath ==
  MAX_CONCURRENT_JOBS = Num(2) =>
    \A h1, h2 \in Requests :
      /\ h1 # h2
      /\ {hpc[h1], hpc[h2]} \subseteq {"streamToFile", "convert", "upload",
                                       "uploadMeta", "unlinkInput",
                                       "unlinkOutput"}
      => inputPath(h1) # inputPath(h2) /\ outputPath(h1) # outputPath(h2)

\* C28: a request answered 429 has acquired no slot and has touched no
\* pipeline resource: no Drive client, no download, no transcoding process
\* and no destination stream.
C28_RejectionAllocatesNothing ==
  \A h \in Requests :
    resp[h] = 429
      => effects[h] = {} /\ ~jobAcquired[h] /\ hReleases[h] = 0
         /\ hpc[h] = "done"

C28_Witness ==
  \E h1, h2 \in Requests :
    /\ resp[h1] = 429 /\ effects[h1] = {}
    /\ jobAcquired[h2] /\ hpc[h2] = "convert"

\* C29: a streaming invocation whose source ends without error, whose
\* child reads its input and exits with status 0 and whose destination
\* accepts every byte eventually resolves; ffmpeg.stdin is ended only after
\* the last source byte was written to it, the write stream is ended only
\* after the child has exited and every output byte was written to it, and
\* the destination is finalized once, before the call resolves.
C29_SuccessfulRunResolves ==
  /\ flow.started ~> flow.life.out = "resolved"
  /\ [](flow.life.stdin \in {"ended", "finished"}
         => flow.ffIn \o flow.stdinBuf = flow.source)
  /\ [](flow.life.ws \in {"ending", "finished"}
         => /\ flow.life.proc = "exited" /\ flow.life.code = 0
            /\ flow.written \o flow.wsBuf = flow.ffOut
            /\ Len(flow.ffOut) = Len(flow.source))
  /\ [](flow.finalized <= 1)
  /\ [](flow.life.out # "pending"
         => flow.life.out = "resolved" /\ flow.finalized = 1)

C29_Witness ==
  /\ flow.life.out = "resolved" /\ flow.finalized = 1
  /\ flow.life.stdin = "finished" /\ flow.life.ws = "finished"
  /\ flow.source = <<2, 2, 1>> /\ flow.ffIn = flow.source

\* C30: in every state, for every configured MAX_CONCURRENT_JOBS,
\* hasAvailableJobSlot() returns true exactly when a tryAcquireJobSlot()
\* made in that state would succeed.
C30_CapacityCheckAgreesWithAcquire ==
  hasAvailableJobSlot(activeJobs, MAX_CONCURRENT_JOBS)
    = tryAcquireJobSlot(activeJobs, MAX_CONCURRENT_JOBS).ok

\* C31: the step that answers a request with 405, 400 or 429 leaves the
\* slot counter as it was, whatever slots other requests hold: the request
\* has acquired no slot and its finally block calls no releaseJobSlot.
C31_RejectionLeavesCounterUnchanged ==
  [][\A h \in Requests :
       hpc[h] = "start" /\ resp'[h] \in {405, 400, 429}
         => /\ hActiveJobs' = hActiveJobs
            /\ ~jobAcquired'[h]
            /\ hReleases'[h] = 0]_vars

\* A request rejected with 405 and one rejected with 429 while a third
\* holds the only slot.
C31_Witness ==
  \E h1, h2, h3 \in Requests :
    /\ resp[h1] = 405 /\ resp[h2] = 429
    /\ jobAcquired[h3] /\ hpc[h3] = "upload"
    /\ hActiveJobs = 1

\* C32: in the temp-file convertStreamAndUpload ffmpeg has been spawned
\* only if the download had completed without error when it was spawned,
\* and the upload has been started only if ffmpeg had exited with code 0
\* when it was started; after a failed download ffmpeg is never spawned,
\* and after a failed download or transcode the upload is never started.
C32_StepsAreSequentialAndGated ==
  \A j \in Jobs :
    /\ tmp.job[j].transcode # "idle"
         => tmp.job[j].ingest = "done" /\ tmp.job[j].atSpawn = "done"
    /\ tmp.job[j].egress # "idle"
         => /\ tmp.job[j].ingest = "done"
            /\ tmp.job[j].transcode = "done" /\ tmp.job[j].atUpload = "done"
    /\ tmp.job[j].ingest = "failed" => tmp.job[j].transcode = "idle"
    /\ (tmp.job[j].ingest = "failed" \/ tmp.job[j].transcode = "failed")
         => tmp.job[j].egress = "idle"

\* One invocation whose three steps succeeded and one that ended after a
\* failed download.
C32_Witness ==
  \E j1, j2 \in Jobs :
    /\ tmp.job[j1].egress = "done" /\ tmp.job[j1].out = "resolved"
    /\ tmp.job[j2].ingest = "failed" /\ tmp.job[j2].pc = "done"
    /\ tmp.job[j2].transcode = "idle" /\ tmp.job[j2].egress = "idle"

\* C33: a settled temp-file convertStreamAndUpload has called unlink on
\* both of its paths, on every exit path; it has resolved exactly when its
\* download, transcode and upload all succeeded, and otherwise it has
\* rejected with the error of the step that failed, whether or not an
\* unlink failed; and it has not settled before its cleanup.
C33_CleanupOnEveryPathKeepsOutcome ==
  \A j \in Jobs :
    /\ tmp.job[j].out # "pending" <=> tmp.job[j].pc = "done"
    /\ tmp.job[j].pc = "done" =>
         /\ tmp.job[j].unlinks = 2
         /\ tmp.job[j].out = "resolved"
              <=> /\ tmp.job[j].ingest = "done"
                  /\ tmp.job[j].transcode = "done"
                  /\ tmp.job[j].egress = "done"
         /\ tmp.job[j].out = "resolved" => tmp.job[j].outErr = "none"
         /\ tmp.job[j].ingest = "failed" => tmp.job[j].outErr = "download"
         /\ tmp.job[j].transcode = "failed"
              => tmp.job[j].outErr = "transcode"
         /\ tmp.job[j].egress = "failed" => tmp.job[j].outErr = "upload"

\* An invocation whose upload failed and whose unlink of the input file
\* failed too: it has rejected with the upload error.
C33_Witness ==
  \E j \in Jobs :
    /\ tmp.job[j].pc = "done" /\ tmp.job[j].egress = "failed"
    /\ tmp.job[j].out = "rejected" /\ tmp.job[j].outErr = "upload"
    /\ tmp.job[j].unlinks = 2
    /\ tmp.job[j].inputPath \in tmp.fs
    /\ \A k \in Jobs \ {j} : tmp.job[k].pc = "idle"

\* C34: throughout a streaming invocation, teardown included, no stream
\* emits 'error' or is destroyed with an error while it has no error
\* listener.
C34_EveryErrorHasAHandler == pipe.uncaught = {}

====
